---- MODULE Spec2Model ----
(***************************************************************************)
(* Model of cmlutils/project_entrypoint.py: the three commands             *)
(* project_export_cmd, project_import_cmd and                              *)
(* populate_engine_runtimes_mapping, run one after another against one     *)
(* destination workspace and one home directory.  Every collaborator call  *)
(* (ProjectExporter / ProjectImporter methods, validators, file reads)     *)
(* either returns or raises; what it returns is drawn from small sets.     *)
(***************************************************************************)
EXTENDS Integers, Sequences, FiniteSets, TLC

\* ---- bounds -------------------------------------------------------------
MaxValidators == 2
MaxFetch == 3

\* ---- keys of the config file (cmlutils.constants, imported at 11-17) -----
USERNAME_KEY == "username"
URL_KEY == "host_url"
API_V1_KEY == "api_key"
OUTPUT_DIR_KEY == "output_dir"
CA_PATH_KEY == "ca_path"

RequiredKeys == <<USERNAME_KEY, URL_KEY, API_V1_KEY, OUTPUT_DIR_KEY>>
ConfigKeys == {USERNAME_KEY, URL_KEY, API_V1_KEY, OUTPUT_DIR_KEY, CA_PATH_KEY}

EmptyMap == [k \in {} |-> ""]

\* A section of the ini file: some of the keys, each with a value.
ConfigSections == UNION {[K -> {"set"}] : K \in SUBSET ConfigKeys}

\* Variant of ReadConfigFile whose key loop stops short of output_dir: C17
\* depends on every required key being looked up.
ReadConfigFileShort(exists, section) ==
  IF ~exists THEN [ok |-> FALSE, cfg |-> EmptyMap]
  ELSE IF \E i \in 1..(Len(RequiredKeys) - 1) : RequiredKeys[i] \notin DOMAIN section
       THEN [ok |-> FALSE, cfg |-> EmptyMap]
       ELSE [ok |-> TRUE,
             cfg |-> [k \in ConfigKeys |->
                        IF k \in DOMAIN section THEN section[k] ELSE ""]]

\* _read_config_file: the file must exist and the four required keys must
\* be present (the first missing one raises NoOptionError); ca_path falls
\* back to the empty string.
ReadConfigFile(exists, section) ==
  IF ~exists THEN [ok |-> FALSE, cfg |-> EmptyMap]
  ELSE IF \E i \in 1..Len(RequiredKeys) : RequiredKeys[i] \notin DOMAIN section
       THEN [ok |-> FALSE, cfg |-> EmptyMap]
       ELSE [ok |-> TRUE,
             cfg |-> [k \in ConfigKeys |->
                        IF k \in DOMAIN section THEN section[k] ELSE ""]]

\* ---- project metadata document ------------------------------------------
EngineKey == "default_project_engine_type"
MetaKeys == {"name", "team_name", EngineKey}
MetaValues == {"v1", "v2"}
MetaDocs == UNION {[K -> MetaValues] : K \in SUBSET MetaKeys}

\* dict.pop(key, None): the document without that key.
Pop(doc, key) == [k \in (DOMAIN doc) \ {key} |-> doc[k]]

\* ---- runtime listing ----------------------------------------------------
Tokens == {"", "t1", "t2"}
RuntimeA == [image_identifier |-> "engine:1", id |-> 1]
RuntimeB == [image_identifier |-> "engine:2", id |-> 2]
Runtimes == {RuntimeA, RuntimeB}
\* The runtime lists a page may carry.
RuntimeLists == {<<>>, <<RuntimeA>>, <<RuntimeB>>, <<RuntimeA, RuntimeB>>}

\* What get_all_runtimes_v2 can return: None, or a dict that may lack
\* either key.
NoneResponse == [kind |-> "None", body |-> EmptyMap]
Bodies ==
  {EmptyMap}
  \cup {[runtimes |-> rs] : rs \in RuntimeLists}
  \cup {[next_page_token |-> t] : t \in Tokens}
  \cup {[runtimes |-> rs, next_page_token |-> t] : rs \in RuntimeLists, t \in Tokens}
Responses == {NoneResponse} \cup {[kind |-> "dict", body |-> b] : b \in Bodies}

\* Python truthiness of a response: None and {} are falsy.
Truthy(r) == r.kind = "dict" /\ DOMAIN r.body # {}

\* dict.get(key, default)
Get(body, key, default) == IF key \in DOMAIN body THEN body[key] ELSE default

\* parse_runtimes_v2: legacy image identifier -> runtime id, the last entry
\* for an identifier wins.
RECURSIVE parse_runtimes_v2(_)
parse_runtimes_v2(rs) ==
  IF rs = <<>> THEN EmptyMap
  ELSE LET init == parse_runtimes_v2(SubSeq(rs, 1, Len(rs) - 1))
           last == rs[Len(rs)]
       IN [k \in (DOMAIN init) \cup {last.image_identifier} |->
             IF k = last.image_identifier THEN last.id ELSE init[k]]

\* ---- state --------------------------------------------------------------
VARIABLES
  cmd,            \* the command of the current run
  pc,             \* its position
  failedAt,       \* phase of the first failure of the run, or "none"
  calls,          \* collaborator calls of the run, in order
  cfgFile,        \* the ini file as _read_config_file found it
  config,         \* output_config of _read_config_file
  creator,        \* creator_username: "unset", "None" or a name
  validators,     \* length of the validator list
  vi,             \* index of the validator the for loop is at
  evaluated,      \* <<index, status>> of every validate() so far
  engine,         \* pexport / pimport: "None" or the username it was built with
  transfer,       \* "not_started", "in_flight", "returned", "failed"
  sessionOpen,    \* the transfer engine holds an open session
  diskDoc,        \* the document read_json_file returned
  project_metadata,
  uses_engine,
  project_id,     \* "unset", "None" or "id"
  createArgs,     \* documents passed to create_project_v2 in this run
  page_token,
  runtimes,
  fetched,        \* page tokens passed to get_all_runtimes_v2, in order
  pages,          \* the responses, in order
  writes,         \* times the catalog file was opened for writing
  destProject,    \* the destination workspace has the project
  destCreated,    \* projects of that name ever created in the destination
  catalogFile     \* legacy_engine_runtime_constants.json

ctlVars == <<cmd, pc, failedAt, calls, cfgFile, config>>
valVars == <<creator, validators, vi, evaluated>>
engVars == <<engine, transfer, sessionOpen>>
metaVars == <<diskDoc, project_metadata, uses_engine, project_id, createArgs>>
catVars == <<page_token, runtimes, fetched, pages, writes>>
homeVars == <<destProject, destCreated, catalogFile>>
vars == <<ctlVars, valVars, engVars, metaVars, catVars, homeVars>>

Terminal == {"done", "aborted", "crashed"}

\* The config file: missing, or there with a section for the project.
NoConfigFile == [exists |-> FALSE, section |-> EmptyMap]
ConfigFiles ==
  {NoConfigFile} \cup {[exists |-> TRUE, section |-> sec] : sec \in ConfigSections}

AbsentFile == [state |-> "absent", content |-> EmptyMap]
TruncatedFile == [state |-> "truncated", content |-> EmptyMap]
CompleteFile(m) == [state |-> "complete", content |-> m]

Init ==
  /\ cmd = "none" /\ pc = "idle" /\ failedAt = "none"
  /\ calls = <<>> /\ cfgFile = NoConfigFile /\ config = EmptyMap
  /\ creator = "unset" /\ validators = 0 /\ vi = 1 /\ evaluated = <<>>
  /\ engine = "None" /\ transfer = "not_started" /\ sessionOpen = FALSE
  /\ diskDoc = EmptyMap /\ project_metadata = EmptyMap /\ uses_engine = FALSE
  /\ project_id = "unset" /\ createArgs = <<>>
  /\ page_token = "" /\ runtimes = <<>> /\ fetched = <<>> /\ pages = <<>>
  /\ writes = 0
  /\ destProject = FALSE /\ destCreated = 0 /\ catalogFile = AbsentFile

\* A command is started from the shell: a fresh process, so every local of
\* the previous run is gone; the destination and the home directory stay.
BeginRun(c, first) ==
  /\ pc \in {"idle"} \cup Terminal
  /\ cmd' = c /\ pc' = first /\ failedAt' = "none"
  /\ calls' = <<>> /\ cfgFile' = NoConfigFile /\ config' = EmptyMap
  /\ creator' = "unset" /\ validators' = 0 /\ vi' = 1 /\ evaluated' = <<>>
  /\ engine' = "None" /\ transfer' = "not_started" /\ sessionOpen' = FALSE
  /\ diskDoc' = EmptyMap /\ project_metadata' = EmptyMap /\ uses_engine' = FALSE
  /\ project_id' = "unset" /\ createArgs' = <<>>
  /\ page_token' = "" /\ runtimes' = <<>> /\ fetched' = <<>> /\ pages' = <<>>
  /\ writes' = 0
  /\ UNCHANGED homeVars

\* An exception inside the try block: control goes to the except clause.
Raise(phase) ==
  /\ pc' = "except"
  /\ failedAt' = IF failedAt = "none" THEN phase ELSE failedAt

\* An exception outside any try block ends the process with a traceback.
Crash(phase) ==
  /\ pc' = "crashed"
  /\ failedAt' = IF failedAt = "none" THEN phase ELSE failedAt

Outcomes == {"ok", "raise"}

\* _read_config_file and the lookups that follow it, outside the try block.
ReadConfig(next) ==
  \E file \in ConfigFiles :
    LET r == ReadConfigFile(file.exists, file.section) IN
    /\ cfgFile' = file
    /\ config' = r.cfg
    /\ IF r.ok THEN pc' = next /\ failedAt' = failedAt
               ELSE Crash("config")
    /\ UNCHANGED <<cmd, calls>>
    /\ UNCHANGED <<valVars, engVars, metaVars, catVars, homeVars>>

\* ---- steps shared by export and import -----------------------------------

\* Variant of ValidationFailed that lets a FAILED response pass: C1 depends on
\* the comparison.
ValidationNeverFails(status) == FALSE

\* if validation_response.validation_status == ValidationResponseStatus.FAILED
ValidationFailed(status) == status = "FAILED"

\* Building the validator list: any length up to the bound.
InitValidators(phase, next) ==
  \E o \in Outcomes, n \in 0..MaxValidators :
    /\ IF o = "raise"
       THEN Raise(phase) /\ UNCHANGED <<validators, vi>>
       ELSE /\ validators' = n /\ vi' = 1
            /\ pc' = IF n = 0 THEN next ELSE "validate"
            /\ failedAt' = failedAt
    /\ UNCHANGED <<cmd, calls, config, cfgFile, creator, evaluated>>
    /\ UNCHANGED <<engVars, metaVars, catVars, homeVars>>

\* One turn of "for v in validators": validate() passes, fails or raises;
\* a FAILED response raises RuntimeError, which ends the loop.
ValidateStep(next) ==
  /\ pc = "validate" /\ vi <= validators
  /\ \E status \in {"PASSED", "FAILED", "RAISED"} :
       /\ evaluated' = Append(evaluated, <<vi, status>>)
       /\ calls' = Append(calls, "validate")
       /\ IF status = "RAISED" \/ ValidationFailed(status)
          THEN Raise("validation") /\ vi' = vi
          ELSE /\ vi' = vi + 1
               /\ pc' = IF vi + 1 > validators THEN next ELSE "validate"
               /\ failedAt' = failedAt
  /\ UNCHANGED <<cmd, config, cfgFile, creator, validators>>
  /\ UNCHANGED <<engVars, metaVars, catVars, homeVars>>

\* The blocking transfer call is entered ...
TransferBegin(at, name) ==
  /\ pc = at
  /\ pc' = "transferring"
  /\ transfer' = "in_flight" /\ sessionOpen' = TRUE
  /\ calls' = Append(calls, name)
  /\ UNCHANGED <<cmd, failedAt, config, cfgFile, engine>>
  /\ UNCHANGED <<valVars, metaVars, catVars, homeVars>>

\* Variant of TransferEnd that swallows a failed transfer and goes on: C10
\* depends on the exception leaving the try block.
TransferEndSwallow(name, next) ==
  /\ pc = "transferring"
  /\ \E o \in Outcomes :
       /\ transfer' = IF o = "ok" THEN "returned" ELSE "failed"
       /\ calls' = Append(calls, name \o (IF o = "ok" THEN ".return" ELSE ".raise"))
  /\ pc' = next
  /\ UNCHANGED <<cmd, failedAt, config, cfgFile, engine, sessionOpen>>
  /\ UNCHANGED <<valVars, metaVars, catVars, homeVars>>

\* ... and returns or raises.
TransferEnd(name, next) ==
  /\ pc = "transferring"
  /\ \E o \in Outcomes :
       IF o = "ok"
       THEN /\ transfer' = "returned" /\ pc' = next /\ failedAt' = failedAt
            /\ calls' = Append(calls, name \o ".return")
       ELSE /\ transfer' = "failed" /\ Raise("transfer")
            /\ calls' = Append(calls, name \o ".raise")
  /\ UNCHANGED <<cmd, config, cfgFile, engine, sessionOpen>>
  /\ UNCHANGED <<valVars, metaVars, catVars, homeVars>>

\* except: logging.error(...); if <engine>: <engine>.terminate_ssh_session();
\* exit().  An exception of terminate_ssh_session leaves the clause before
\* exit() is reached.
ExceptClause ==
  /\ pc = "except"
  /\ IF engine # "None"
     THEN \E o \in Outcomes :
            IF o = "ok"
            THEN /\ calls' = calls \o <<"logging.error", "terminate_ssh_session", "exit()">>
                 /\ sessionOpen' = FALSE /\ pc' = "aborted"
            ELSE /\ calls' = calls \o <<"logging.error", "terminate_ssh_session",
                                         "terminate_ssh_session.raise">>
                 /\ sessionOpen' = sessionOpen /\ pc' = "crashed"
     ELSE /\ calls' = calls \o <<"logging.error", "exit()">>
          /\ pc' = "aborted"
          /\ UNCHANGED sessionOpen
  /\ UNCHANGED <<cmd, failedAt, config, cfgFile, engine, transfer>>
  /\ UNCHANGED <<valVars, metaVars, catVars, homeVars>>

\* ---- project_export_cmd ---------------------------------------------------

StartExport == BeginRun("export", "e_config")

ExportReadConfig == cmd = "export" /\ pc = "e_config" /\ ReadConfig("e_pobj")

\* pobj = ProjectExporter(username=username, ...)
ExportConstructPobj ==
  /\ cmd = "export" /\ pc = "e_pobj"
  /\ \E o \in Outcomes :
       IF o = "ok" THEN pc' = "e_identity" /\ failedAt' = failedAt
                   ELSE Raise("identity")
  /\ UNCHANGED <<cmd, calls, config, cfgFile>>
  /\ UNCHANGED <<valVars, engVars, metaVars, catVars, homeVars>>

\* What get_creator_username can answer: the requesting user, another user,
\* nobody, or an exception.
CreatorAnswers == {config[USERNAME_KEY], "creator", "None", "raise"}

\* creator_username, project_slug, owner_type = pobj.get_creator_username()
\* if creator_username is None: raise RuntimeError
ExportGetCreator ==
  /\ cmd = "export" /\ pc = "e_identity"
  /\ calls' = Append(calls, "get_creator_username")
  /\ \E r \in CreatorAnswers :
       /\ creator' = IF r = "raise" THEN creator ELSE r
       /\ IF r \notin {"None", "raise"} THEN pc' = "e_initval" /\ failedAt' = failedAt
                                        ELSE Raise("identity")
  /\ UNCHANGED <<cmd, config, cfgFile, validators, vi, evaluated>>
  /\ UNCHANGED <<engVars, metaVars, catVars, homeVars>>

ExportInitValidators ==
  cmd = "export" /\ pc = "e_initval" /\ InitValidators("init_validators", "e_construct")

ExportValidate == cmd = "export" /\ ValidateStep("e_construct")

\* pexport = ProjectExporter(username=creator_username, ...)
ExportConstructEngine ==
  /\ cmd = "export" /\ pc = "e_construct"
  /\ \E o \in Outcomes :
       IF o = "ok" THEN engine' = creator /\ pc' = "e_transfer" /\ failedAt' = failedAt
                   ELSE engine' = engine /\ Raise("construct")
  /\ UNCHANGED <<cmd, calls, config, cfgFile, transfer, sessionOpen>>
  /\ UNCHANGED <<valVars, metaVars, catVars, homeVars>>

ExportTransferBegin == cmd = "export" /\ TransferBegin("e_transfer", "transfer_project_files")

ExportTransferEnd == cmd = "export" /\ TransferEnd("transfer_project_files", "e_dump")

\* pexport.dump_project_and_related_metadata(); the command then returns.
ExportDump ==
  /\ cmd = "export" /\ pc = "e_dump"
  /\ calls' = Append(calls, "dump_project_and_related_metadata")
  /\ \E o \in Outcomes :
       IF o = "ok" THEN pc' = "done" /\ failedAt' = failedAt
                   ELSE Raise("metadata")
  /\ UNCHANGED <<cmd, config, cfgFile>>
  /\ UNCHANGED <<valVars, engVars, metaVars, catVars, homeVars>>

ExportExcept == cmd = "export" /\ ExceptClause

\* ---- project_import_cmd ---------------------------------------------------

StartImport == BeginRun("import", "i_config")

ImportReadConfig == cmd = "import" /\ pc = "i_config" /\ ReadConfig("i_p")

\* p = ProjectImporter(username=username, ...), before the try block
ImportConstructP ==
  /\ cmd = "import" /\ pc = "i_p"
  /\ \E o \in Outcomes :
       IF o = "ok" THEN pc' = "i_initval" /\ failedAt' = failedAt
                   ELSE Crash("construct")
  /\ UNCHANGED <<cmd, calls, config, cfgFile>>
  /\ UNCHANGED <<valVars, engVars, metaVars, catVars, homeVars>>

ImportInitValidators ==
  cmd = "import" /\ pc = "i_initval" /\ InitValidators("init_validators", "i_readmeta")

ImportValidate == cmd = "import" /\ ValidateStep("i_readmeta")

\* Variant of UsesEngine that takes every project for a legacy-engine one:
\* C5 depends on the membership test.
AlwaysUsesEngine(doc) == TRUE

\* if "default_project_engine_type" in project_metadata
UsesEngine(doc) == EngineKey \in DOMAIN doc

\* Variant of StripMarker that forgets the pop: C9 depends on it.
KeepMarker(doc) == doc

\* project_metadata.pop("default_project_engine_type", None), done in place
\* when the key is there
StripMarker(doc) == IF UsesEngine(doc) THEN Pop(doc, EngineKey) ELSE doc

\* project_metadata = read_json_file(project_filepath), then the marker is
\* noted and removed
ImportReadMetadata ==
  /\ cmd = "import" /\ pc = "i_readmeta"
  /\ calls' = Append(calls, "read_json_file")
  /\ \E o \in Outcomes :
       IF o = "raise"
       THEN Raise("readmeta") /\ UNCHANGED <<diskDoc, project_metadata, uses_engine>>
       ELSE \E doc \in MetaDocs :
              /\ diskDoc' = doc
              /\ uses_engine' = UsesEngine(doc)
              /\ project_metadata' = StripMarker(doc)
              /\ pc' = "i_check" /\ failedAt' = failedAt
  /\ UNCHANGED <<cmd, config, cfgFile, project_id, createArgs>>
  /\ UNCHANGED <<valVars, engVars, catVars, homeVars>>

\* The destination's answer to a lookup by name.
check_project_exist(present) == IF present THEN "id" ELSE "None"

\* project_id = p.check_project_exist(project_metadata["name"])
ImportCheckProject ==
  /\ cmd = "import" /\ pc = "i_check"
  /\ IF "name" \notin DOMAIN project_metadata
     THEN Raise("lookup") /\ UNCHANGED <<calls, project_id>>
     ELSE \E o \in Outcomes :
            IF o = "ok"
            THEN /\ project_id' = check_project_exist(destProject)
                 /\ calls' = Append(calls, "check_project_exist->" \o project_id')
                 /\ pc' = "i_create" /\ failedAt' = failedAt
            ELSE /\ calls' = Append(calls, "check_project_exist->raise")
                 /\ Raise("lookup") /\ project_id' = project_id
  /\ UNCHANGED <<cmd, config, cfgFile, diskDoc, project_metadata, uses_engine, createArgs>>
  /\ UNCHANGED <<valVars, engVars, catVars, homeVars>>

\* Variant of NeedsCreate that creates whatever the lookup said: C4 depends
\* on the test.
AlwaysCreate(pid) == TRUE

\* if project_id == None
NeedsCreate(pid) == pid = "None"

\* if project_id == None: project_id = p.create_project_v2(project_metadata)
\* else: warn.  A create that raises may or may not have created the
\* project on the destination.
ImportCreateProject ==
  /\ cmd = "import" /\ pc = "i_create"
  /\ IF NeedsCreate(project_id)
     THEN /\ calls' = Append(calls, "create_project_v2")
          /\ createArgs' = Append(createArgs, project_metadata)
          /\ \E o \in Outcomes, made \in BOOLEAN :
               /\ o = "ok" => made
               /\ destProject' = (destProject \/ made)
               /\ destCreated' = IF made THEN destCreated + 1 ELSE destCreated
               /\ IF o = "ok"
                  THEN project_id' = "id" /\ pc' = "i_identity" /\ failedAt' = failedAt
                  ELSE project_id' = project_id /\ Raise("create")
     ELSE /\ calls' = Append(calls, "warning:project_exists")
          /\ pc' = "i_identity"
          /\ UNCHANGED <<failedAt, createArgs, project_id, destProject, destCreated>>
  /\ UNCHANGED <<cmd, config, cfgFile, diskDoc, project_metadata, uses_engine, catalogFile>>
  /\ UNCHANGED <<valVars, engVars, catVars>>

\* if "team_name" in project_metadata: username = project_metadata["team_name"]
ImportUsername ==
  IF "team_name" \in DOMAIN project_metadata
  THEN project_metadata["team_name"] ELSE config[USERNAME_KEY]

\* creator_username, project_slug = p.get_creator_username(); the result is
\* not examined
ImportGetCreator ==
  /\ cmd = "import" /\ pc = "i_identity"
  /\ calls' = Append(calls, "get_creator_username")
  /\ \E r \in CreatorAnswers :
       /\ creator' = IF r = "raise" THEN creator ELSE r
       /\ IF r = "raise" THEN Raise("identity")
                         ELSE pc' = "i_construct" /\ failedAt' = failedAt
  /\ UNCHANGED <<cmd, config, cfgFile, validators, vi, evaluated>>
  /\ UNCHANGED <<engVars, metaVars, catVars, homeVars>>

\* pimport = ProjectImporter(username=username, ...)
ImportConstructEngine ==
  /\ cmd = "import" /\ pc = "i_construct"
  /\ \E o \in Outcomes :
       IF o = "ok" THEN engine' = ImportUsername /\ pc' = "i_transfer" /\ failedAt' = failedAt
                   ELSE engine' = engine /\ Raise("construct")
  /\ UNCHANGED <<cmd, calls, config, cfgFile, transfer, sessionOpen>>
  /\ UNCHANGED <<valVars, metaVars, catVars, homeVars>>

ImportTransferBegin == cmd = "import" /\ TransferBegin("i_transfer", "transfer_project")

ImportTransferEnd == cmd = "import" /\ TransferEnd("transfer_project", "i_terminate")

\* pimport.terminate_ssh_session(), right after the transfer
ImportTerminate ==
  /\ cmd = "import" /\ pc = "i_terminate"
  /\ \E o \in Outcomes :
       IF o = "ok"
       THEN /\ calls' = Append(calls, "terminate_ssh_session")
            /\ sessionOpen' = FALSE /\ pc' = "i_convert" /\ failedAt' = failedAt
       ELSE /\ calls' = calls \o <<"terminate_ssh_session", "terminate_ssh_session.raise">>
            /\ sessionOpen' = sessionOpen /\ Raise("close")
  /\ UNCHANGED <<cmd, config, cfgFile, engine, transfer>>
  /\ UNCHANGED <<valVars, metaVars, catVars, homeVars>>

\* if uses_engine: pimport.convert_project_to_engine_based(...)
ImportConvert ==
  /\ cmd = "import" /\ pc = "i_convert"
  /\ IF uses_engine
     THEN /\ calls' = Append(calls, "convert_project_to_engine_based")
          /\ \E o \in Outcomes :
               IF o = "ok" THEN pc' = "i_importmeta" /\ failedAt' = failedAt
                           ELSE Raise("metadata")
     ELSE pc' = "i_importmeta" /\ UNCHANGED <<calls, failedAt>>
  /\ UNCHANGED <<cmd, config, cfgFile>>
  /\ UNCHANGED <<valVars, engVars, metaVars, catVars, homeVars>>

\* pimport.import_metadata(project_id=project_id); the command then returns.
ImportMetadata ==
  /\ cmd = "import" /\ pc = "i_importmeta"
  /\ calls' = Append(calls, "import_metadata")
  /\ \E o \in Outcomes :
       IF o = "ok" THEN pc' = "done" /\ failedAt' = failedAt
                   ELSE Raise("metadata")
  /\ UNCHANGED <<cmd, config, cfgFile>>
  /\ UNCHANGED <<valVars, engVars, metaVars, catVars, homeVars>>

ImportExcept == cmd = "import" /\ ExceptClause

\* ---- populate_engine_runtimes_mapping --------------------------------------

StartPopulate == BeginRun("populate", "p_config")

PopulateReadConfig == cmd = "populate" /\ pc = "p_config" /\ ReadConfig("p_p")

\* p = ProjectImporter(...); the command has no try block around it
PopulateConstructP ==
  /\ cmd = "populate" /\ pc = "p_p"
  /\ \E o \in Outcomes :
       IF o = "ok" THEN pc' = "p_first" /\ failedAt' = failedAt
                   ELSE Crash("construct")
  /\ UNCHANGED <<cmd, calls, config, cfgFile>>
  /\ UNCHANGED <<valVars, engVars, metaVars, catVars, homeVars>>

\* Variant of ContinuePaging that never leaves the loop on an empty token:
\* C19 depends on the loop test.
AlwaysContinue(token) == TRUE

\* while len(page_token) > 0
ContinuePaging(token) == token # ""

\* What the remote may answer to the k-th fetch: anything, except that the
\* last fetch the bound allows does not ask for another one.
FetchChoices(k) ==
  IF k < MaxFetch THEN Responses
  ELSE {r \in Responses : ~Truthy(r) \/ Get(r.body, "next_page_token", "") = ""}

\* page_token = ""; response = p.get_all_runtimes_v2(page_token);
\* if not response: return; runtimes = ...; page_token = ...
PopulateFirstFetch ==
  /\ cmd = "populate" /\ pc = "p_first"
  /\ calls' = Append(calls, "get_all_runtimes_v2")
  /\ fetched' = Append(fetched, "")
  /\ \E o \in Outcomes :
       IF o = "raise"
       THEN Crash("fetch") /\ UNCHANGED <<pages, runtimes, page_token>>
       ELSE \E response \in FetchChoices(1) :
              /\ pages' = Append(pages, response)
              /\ failedAt' = failedAt
              /\ IF ~Truthy(response)
                 THEN pc' = "done" /\ UNCHANGED <<runtimes, page_token>>
                 ELSE /\ runtimes' = Get(response.body, "runtimes", <<>>)
                      /\ page_token' = Get(response.body, "next_page_token", "")
                      /\ pc' = IF ContinuePaging(page_token') THEN "p_loop" ELSE "p_parse"
  /\ UNCHANGED <<cmd, config, cfgFile, writes>>
  /\ UNCHANGED <<valVars, engVars, metaVars, homeVars>>

\* Variant of Aggregate that keeps only the newest page: C6 depends on the
\* concatenation.
OverwriteRuntimes(acc, response) == Get(response.body, "runtimes", <<>>)

\* runtimes = runtimes + response.get("runtimes", [])
Aggregate(acc, response) == acc \o Get(response.body, "runtimes", <<>>)

\* One turn of the while loop: fetch with the current token; no response
\* breaks out of the loop, a response is appended and its token taken.
PopulateNextFetch ==
  /\ cmd = "populate" /\ pc = "p_loop"
  /\ calls' = Append(calls, "get_all_runtimes_v2")
  /\ fetched' = Append(fetched, page_token)
  /\ \E o \in Outcomes :
       IF o = "raise"
       THEN Crash("fetch") /\ UNCHANGED <<pages, runtimes, page_token>>
       ELSE \E response \in FetchChoices(Len(fetched) + 1) :
              /\ pages' = Append(pages, response)
              /\ failedAt' = failedAt
              /\ IF ~Truthy(response)
                 THEN pc' = "p_parse" /\ UNCHANGED <<runtimes, page_token>>
                 ELSE /\ runtimes' = Aggregate(runtimes, response)
                      /\ page_token' = Get(response.body, "next_page_token", "")
                      /\ pc' = IF ContinuePaging(page_token') THEN "p_loop" ELSE "p_parse"
  /\ UNCHANGED <<cmd, config, cfgFile, writes>>
  /\ UNCHANGED <<valVars, engVars, metaVars, homeVars>>

\* if len(runtimes) > 0: legacy_runtime_image_map = parse_runtimes_v2(runtimes)
\* else: log an error and return
PopulateParse ==
  /\ cmd = "populate" /\ pc = "p_parse"
  /\ pc' = IF Len(runtimes) > 0 THEN "p_write" ELSE "done"
  /\ calls' = IF Len(runtimes) > 0 THEN Append(calls, "parse_runtimes_v2")
                                   ELSE Append(calls, "error:no_runtimes")
  /\ UNCHANGED <<cmd, failedAt, config, cfgFile>>
  /\ UNCHANGED <<valVars, engVars, metaVars, catVars, homeVars>>

\* with open(path, "w") as f: dump(legacy_runtime_image_map, f), inside
\* try/except: open may fail and leave the file alone; open truncates the
\* file, so a dump that fails leaves it cut short; the except clause logs.
PopulateWrite ==
  /\ cmd = "populate" /\ pc = "p_write"
  /\ writes' = writes + 1
  /\ \E o \in {"ok", "open_fails", "dump_fails"} :
       /\ calls' = Append(calls, "write:" \o o)
       /\ catalogFile' = CASE o = "ok" -> CompleteFile(parse_runtimes_v2(runtimes))
                           [] o = "open_fails" -> catalogFile
                           [] o = "dump_fails" -> TruncatedFile
  /\ pc' = "done"
  /\ UNCHANGED <<cmd, failedAt, config, cfgFile, destProject, destCreated>>
  /\ UNCHANGED <<page_token, runtimes, fetched, pages>>
  /\ UNCHANGED <<valVars, engVars, metaVars>>

\* ---- the program ----------------------------------------------------------

Next ==
  \/ StartExport \/ ExportReadConfig \/ ExportConstructPobj \/ ExportGetCreator
  \/ ExportInitValidators \/ ExportValidate \/ ExportConstructEngine
  \/ ExportTransferBegin \/ ExportTransferEnd \/ ExportDump \/ ExportExcept
  \/ StartImport \/ ImportReadConfig \/ ImportConstructP
  \/ ImportInitValidators \/ ImportValidate \/ ImportReadMetadata
  \/ ImportCheckProject \/ ImportCreateProject \/ ImportGetCreator
  \/ ImportConstructEngine \/ ImportTransferBegin \/ ImportTransferEnd
  \/ ImportTerminate \/ ImportConvert \/ ImportMetadata \/ ImportExcept
  \/ StartPopulate \/ PopulateReadConfig \/ PopulateConstructP
  \/ PopulateFirstFetch \/ PopulateNextFetch \/ PopulateParse \/ PopulateWrite

Spec == Init /\ [][Next]_vars

\* ---- properties ------------------------------------------------------------

Called(name) == \E i \in DOMAIN calls : calls[i] = name

Count(name) == Cardinality({i \in DOMAIN calls : calls[i] = name})

\* Every call of b comes after some call of a.
Before(a, b) ==
  \A j \in DOMAIN calls : calls[j] = b => \E i \in 1..(j - 1) : calls[i] = a

TransferStarted ==
  \/ transfer # "not_started"
  \/ Called("transfer_project_files") \/ Called("transfer_project")

\* C1: in export and in import the validators are evaluated in list order,
\* and once validator i has returned FAILED no later validator is evaluated
\* and no file transfer is ever started in that run.
C1_ValidatorShortCircuit ==
  /\ \A k \in DOMAIN evaluated : evaluated[k][1] = k
  /\ \A k \in DOMAIN evaluated :
       evaluated[k][2] = "FAILED" => k = Len(evaluated) /\ ~TransferStarted

\* A run whose first of two validators failed and which has ended.
C1_Witness ==
  /\ pc = "aborted" /\ validators = 2
  /\ Len(evaluated) = 1 /\ evaluated[1][2] = "FAILED"

\* C2: whenever a run of export or import ends and its transfer engine
\* (pexport / pimport) was created, terminate_ssh_session has been called on
\* it.
C2_TerminatedOnEveryExit ==
  (pc \in Terminal /\ engine # "None") => Called("terminate_ssh_session")

\* C3: a run that failed at validation, at transfer or at metadata
\* reconciliation has called terminate_ssh_session exactly once when it ends.
C3_TerminatedExactlyOnce ==
  (pc \in Terminal /\ failedAt \in {"validation", "transfer", "metadata"})
    => Count("terminate_ssh_session") = 1

\* C4: over any sequence of import runs, create_project_v2 is called only in
\* a run whose check_project_exist returned no id, the destination project is
\* created at most once, and a run that found the project and completed has
\* skipped creation and performed the file transfer.
C4_CreateAtMostOnce ==
  /\ destCreated <= 1
  /\ Called("create_project_v2") => Called("check_project_exist->None")
  /\ Called("check_project_exist->id") => ~Called("create_project_v2")
  /\ (Called("check_project_exist->id") /\ pc = "done")
       => Called("transfer_project.return")

\* A re-run that found the project created by an earlier run and completed.
C4_Witness ==
  /\ cmd = "import" /\ pc = "done" /\ destCreated = 1
  /\ Called("check_project_exist->id") /\ Called("transfer_project.return")

NextToken(response) == Get(response.body, "next_page_token", "")

CompletePagination ==
  /\ pages # <<>>
  /\ \A k \in DOMAIN pages :
       Truthy(pages[k]) /\ (NextToken(pages[k]) = "" <=> k = Len(pages))

RECURSIVE ConcatPages(_)
ConcatPages(ps) ==
  IF ps = <<>> THEN <<>>
  ELSE ConcatPages(SubSeq(ps, 1, Len(ps) - 1))
         \o Get(ps[Len(ps)].body, "runtimes", <<>>)

\* C6: when populate_engine_runtimes_mapping has ended after a complete
\* pagination, it fetched once per page, the first time with the empty token
\* and then with the token of the page before, its runtime list is the
\* concatenation of the pages in fetch order, and it opened the catalog file
\* for writing once if that list is non-empty and not at all if it is empty,
\* without an error.
C6_CompletePagination ==
  (cmd = "populate" /\ pc = "done" /\ CompletePagination) =>
    /\ Len(fetched) = Len(pages)
    /\ fetched[1] = ""
    /\ \A k \in 2..Len(fetched) : fetched[k] = NextToken(pages[k - 1])
    /\ runtimes = ConcatPages(pages)
    /\ writes = IF runtimes # <<>> THEN 1 ELSE 0
    /\ Count("get_all_runtimes_v2") = Len(pages)
    /\ failedAt = "none"

\* Two pages, the first with two runtimes, aggregated and written.
C6_Witness ==
  /\ cmd = "populate" /\ pc = "done" /\ CompletePagination
  /\ Len(pages) = 2 /\ Len(runtimes) = 3
  /\ writes = 1 /\ catalogFile = CompleteFile(parse_runtimes_v2(runtimes))

\* C7: when a fetch after a non-empty first page returns no response,
\* populate_engine_runtimes_mapping does not write the catalog file.
C7_PartialDiscarded ==
  (/\ cmd = "populate" /\ pc = "done"
   /\ Len(pages) >= 2
   /\ Truthy(pages[1]) /\ Get(pages[1].body, "runtimes", <<>>) # <<>>
   /\ \E k \in 2..Len(pages) : ~Truthy(pages[k]))
    => writes = 0

\* C8: when get_creator_username found no creator, no transfer engine is
\* constructed, no session is opened and no transfer is started.
C8_NoCreatorNoTransfer ==
  creator = "None" => engine = "None" /\ ~sessionOpen /\ ~TransferStarted

\* C9: every document passed to create_project_v2 is the document read from
\* disk without the key default_project_engine_type, the other keys and
\* their values unchanged.
C9_MarkerStripped ==
  \A k \in DOMAIN createArgs :
    /\ EngineKey \notin DOMAIN createArgs[k]
    /\ DOMAIN createArgs[k] = (DOMAIN diskDoc) \ {EngineKey}
    /\ \A key \in DOMAIN createArgs[k] : createArgs[k][key] = diskDoc[key]

\* A project created from a document that carried the marker and a team.
C9_Witness ==
  /\ createArgs # <<>>
  /\ EngineKey \in DOMAIN diskDoc /\ "team_name" \in DOMAIN diskDoc

\* C10: in export dump_project_and_related_metadata is called only after
\* transfer_project_files has returned, and never in a run in which
\* validation or the transfer failed.
C10_DumpAfterTransfer ==
  cmd = "export" =>
    /\ Called("dump_project_and_related_metadata") =>
         /\ transfer = "returned"
         /\ Before("transfer_project_files.return", "dump_project_and_related_metadata")
    /\ failedAt \in {"validation", "transfer"}
         => ~Called("dump_project_and_related_metadata")

\* An export whose metadata was dumped after the transfer.
C10_Witness ==
  /\ cmd = "export" /\ pc = "done"
  /\ Called("dump_project_and_related_metadata")

\* exit() is called without an argument.
ExitArgument == "None"

\* The status of a process that ends by SystemExit(arg): None gives 0.
SystemExitStatus(arg) == IF arg = "None" THEN 0 ELSE 1

\* The exit status of the ended run: an uncaught exception gives 1, exit()
\* the status of its argument, a plain return 0.
ProcessStatus ==
  IF pc = "crashed" THEN 1
  ELSE IF Called("exit()") THEN SystemExitStatus(ExitArgument) ELSE 0

\* C11: a run of export or import that aborted on identity not found, a
\* validator FAILED, or an exception during transfer or metadata
\* reconciliation has logged the error and ends with a non-zero exit status.
C11_AbortExitsNonZero ==
  (/\ cmd \in {"export", "import"} /\ pc \in {"aborted", "crashed"}
   /\ failedAt \in {"identity", "validation", "transfer", "metadata"})
    => Called("logging.error") /\ ProcessStatus # 0

\* C12: in an import run whose check_project_exist returned an id, the
\* legacy-engine patch convert_project_to_engine_based is never applied.
C12_ExistingProjectUntouched ==
  Called("check_project_exist->id") => ~Called("convert_project_to_engine_based")

\* C13: in export and in import the transfer engine is constructed with the
\* username get_creator_username returned.
C13_EngineActsAsCreator ==
  engine # "None" => engine = creator

\* Every call of one of B comes after some call of one of A.
Precedes(A, B) ==
  \A j \in DOMAIN calls : calls[j] \in B => \E i \in 1..(j - 1) : calls[i] \in A

\* No call of one of B comes after a call of one of A.
NeverAfter(A, B) ==
  \A i, j \in DOMAIN calls : (i < j /\ calls[i] \in A) => calls[j] \notin B

AllValidatorsPassed ==
  /\ Len(evaluated) = validators
  /\ \A k \in DOMAIN evaluated : evaluated[k][2] = "PASSED"

TransferCalls == {"transfer_project_files", "transfer_project"}
TransferReturns == {"transfer_project_files.return", "transfer_project.return"}
LookupCalls ==
  {"check_project_exist->None", "check_project_exist->id", "check_project_exist->raise"}
ReconcilerCalls ==
  {"dump_project_and_related_metadata", "create_project_v2",
   "convert_project_to_engine_based", "import_metadata"} \cup LookupCalls

\* The order the phases are said to have: identity, validation, transfer,
\* metadata reconciliation.
ClaimedOrder ==
  /\ Precedes({"get_creator_username"}, {"validate"})
  /\ TransferStarted => AllValidatorsPassed
  /\ Precedes(TransferReturns, ReconcilerCalls)

\* C14 as stated: export and import both resolve identity before the first
\* validator runs, finish all validators before the transfer starts, and make
\* no metadata-reconciler call before the transfer has completed.
C14_SamePhaseOrder == cmd \in {"export", "import"} => ClaimedOrder

\* C14 as amended: export has the stated order; import runs all validators
\* first, then reads the metadata and looks up or creates the destination
\* project, then resolves identity, then transfers, and calls
\* convert_project_to_engine_based and import_metadata only after the
\* transfer has returned.
C14_PhaseOrder ==
  /\ cmd = "export" => ClaimedOrder
  /\ cmd = "import" =>
       /\ (\E i \in DOMAIN calls :
             calls[i] \in {"read_json_file", "get_creator_username"} \cup ReconcilerCalls)
            => AllValidatorsPassed
       /\ TransferStarted => AllValidatorsPassed
       /\ Precedes({"read_json_file"}, LookupCalls \cup {"create_project_v2"})
       /\ Precedes({"check_project_exist->None"}, {"create_project_v2"})
       /\ Precedes({"check_project_exist->None", "check_project_exist->id"},
                   {"get_creator_username"})
       /\ Precedes({"get_creator_username"}, TransferCalls)
       /\ NeverAfter(TransferCalls, LookupCalls \cup {"create_project_v2", "get_creator_username"})
       /\ Precedes(TransferReturns, {"convert_project_to_engine_based", "import_metadata"})
       /\ NeverAfter({"import_metadata"}, {"convert_project_to_engine_based"})

\* An import that created the project, transferred and completed.
C14_Witness ==
  /\ cmd = "import" /\ pc = "done" /\ validators = 2
  /\ Called("create_project_v2") /\ Called("import_metadata")

\* C15: a failure of terminate_ssh_session, on the normal path of import or
\* inside the except clause of export or import, never leaves the command as
\* an uncaught exception.
C15_CloseFailureSwallowed ==
  Called("terminate_ssh_session.raise") => pc # "crashed"

\* C16: a run of export or import in which anything failed, the config read
\* and the construction of the first engine object included, ends aborted,
\* logged and with no session open, never by an uncaught exception.
C16_FailureNeverEscapes ==
  (cmd \in {"export", "import"} /\ failedAt # "none" /\ pc \in Terminal)
    => pc = "aborted" /\ Called("logging.error") /\ ~sessionOpen

ConfigRead == pc \notin {"idle", "e_config", "i_config", "p_config"}

ConfigComplete ==
  cfgFile.exists /\ \A i \in 1..Len(RequiredKeys) : RequiredKeys[i] \in DOMAIN cfgFile.section

\* C17: once export, import or populate_engine_runtimes_mapping has read its
\* config: if the file or one of username, host_url, api_key, output_dir was
\* missing, the command has failed without a single collaborator call
\* (no identity lookup, validator, fetch, project lookup or creation, or
\* transfer); otherwise the read did not fail, the required values are the
\* file's, and ca_path is the file's value or the empty string if absent.
C17_ConfigBeforeRemote ==
  ConfigRead =>
    /\ ~ConfigComplete =>
         /\ pc = "crashed" /\ failedAt = "config"
         /\ calls = <<>> /\ evaluated = <<>> /\ fetched = <<>>
         /\ ~TransferStarted /\ createArgs = <<>>
    /\ ConfigComplete =>
         /\ failedAt # "config"
         /\ \A i \in 1..Len(RequiredKeys) :
              config[RequiredKeys[i]] = cfgFile.section[RequiredKeys[i]]
         /\ config[CA_PATH_KEY] =
              IF CA_PATH_KEY \in DOMAIN cfgFile.section
              THEN cfgFile.section[CA_PATH_KEY] ELSE ""

\* populate_engine_runtimes_mapping stopped on a file that has ca_path and
\* three required keys but no output_dir.
C17_Witness ==
  /\ cmd = "populate" /\ pc = "crashed" /\ cfgFile.exists
  /\ DOMAIN cfgFile.section = ConfigKeys \ {OUTPUT_DIR_KEY}

\* C18: the catalog file is never left cut short: it holds a complete
\* mapping, the prior one or the new one, or was never written.
C18_CatalogNeverPartial ==
  catalogFile.state \in {"absent", "complete"}

\* A response after which the loop fetches again.
AsksForMore(response) == Truthy(response) /\ NextToken(response) # ""

\* C19: populate_engine_runtimes_mapping passes the empty token to its first
\* fetch and to every later fetch the next_page_token of the response just
\* before; it keeps fetching exactly as long as the last response was a
\* non-empty one with a non-empty token, and stops at the first response that
\* is missing or has an empty token, having made one fetch per response.
C19_TokenChain ==
  cmd = "populate" =>
    /\ fetched # <<>> => fetched[1] = ""
    /\ \A k \in 2..Len(fetched) : fetched[k] = NextToken(pages[k - 1])
    /\ \A k \in 1..(Len(pages) - 1) : AsksForMore(pages[k])
    /\ pc = "p_loop" => pages # <<>> /\ AsksForMore(pages[Len(pages)])
    /\ pc \in {"p_parse", "p_write", "done"} =>
         pages # <<>> /\ ~AsksForMore(pages[Len(pages)])
    /\ Count("get_all_runtimes_v2") = Len(fetched)
    /\ failedAt = "none" => Len(pages) = Len(fetched)

\* Three fetches, with "", "t2" and "t1", the third without a response.
C19_Witness ==
  /\ cmd = "populate" /\ pc = "p_parse"
  /\ fetched = <<"", "t2", "t1">> /\ ~Truthy(pages[3])

\* C20: in an import run in which a validator returned FAILED or raised, or
\* in which reading the metadata file failed, none of check_project_exist,
\* create_project_v2, convert_project_to_engine_based and import_metadata is
\* ever called.
C20_DestinationUntouched ==
  (/\ cmd = "import"
   /\ \/ \E k \in DOMAIN evaluated : evaluated[k][2] \in {"FAILED", "RAISED"}
      \/ failedAt = "readmeta")
    => /\ \A i \in DOMAIN calls : calls[i] \notin ReconcilerCalls
       /\ createArgs = <<>> /\ project_id = "unset"

\* An import whose second validator failed and which has ended.
C20_Witness ==
  /\ cmd = "import" /\ pc = "aborted"
  /\ Len(evaluated) = 2 /\ evaluated[2][2] = "FAILED"

====
